---- MODULE Spec2Model ----
(***************************************************************************)
(* Model of the patient management service of src/main.py.                 *)
(*                                                                         *)
(* patients.json is the variable `file`: a JSON object, kept as the        *)
(* sequence of its entries in key order (json.load builds a dict, which    *)
(* keeps the order of the file; json.dump writes the dict in its order).   *)
(*                                                                         *)
(* Units: height in centimetres (1.60 m = 160), weight in tenths of a      *)
(* kilogram (64.0 kg = 640), bmi in hundredths (25.0 = 2500).              *)
(*                                                                         *)
(* A value of a request body or of a dict not yet validated is wrapped:    *)
(* <<v>> is the value v and << >> is JSON null / Python None.              *)
(***************************************************************************)
EXTENDS Integers, Sequences, FiniteSets, TLC

VARIABLES file,      \* contents of patients.json
          prev,      \* contents of patients.json when the request in `req` arrived
          req,       \* the request being answered, NoReq between requests
          resp,      \* the response to `req`
          deleted,   \* history: ids deleted and not created again since
          pc,        \* of each worker: "idle", "loaded" (between load_data and save_data), "done"
          job,       \* of each worker: the request it serves
          snapshot,  \* of each worker: the dict its load_data returned
          answer,    \* of each worker: its response
          saved      \* history: the workers that called save_data, in order

workerVars == <<pc, job, snapshot, answer, saved>>

vars == <<file, prev, req, resp, deleted, pc, job, snapshot, answer, saved>>

\* ------------------------------------------------------------------ values

None == << >>
Some(v) == <<v>>

NoReq == [op |-> "none"]
NoResp == [status |-> 0]

FieldNames == {"name", "city", "age", "gender", "height", "weight"}

\* Literal['male','female','others']
Genders == {"male", "female", "others"}

\* ------------------------------------------------------------------ bounds

\* largest number of fields one update payload supplies
MaxSupplied == 2

\* largest number of records of a store that is sorted
MaxSortRecords == 3

\* ------------------------------------------------------------------ inputs

PatientIds == {"P001", "P002"}
Names == {"A"}
Cities == {"X"}
Ages == {0, 30, 60, 120}
GenderInputs == {"male", "bogus"}
Heights == {0, 160, 200}
Weights == {0, 600, 640, 998}

\* bodies of POST /create
CreateBodies ==
    [id : PatientIds, name : Names, city : Cities, age : Ages,
     gender : GenderInputs, height : Heights, weight : Weights]

\* the values a PUT /update body may give a field: a value or null
UpdateValues(k) ==
    CASE k = "name"   -> {Some(v) : v \in Names} \cup {None}
      [] k = "city"   -> {Some(v) : v \in Cities} \cup {None}
      [] k = "age"    -> {Some(v) : v \in Ages}
      [] k = "gender" -> {Some(v) : v \in GenderInputs}
      [] k = "height" -> {Some(v) : v \in Heights}
      [] k = "weight" -> {Some(v) : v \in Weights}

\* the values of field k over the bodies that supply the fields S; a field
\* the body does not supply has the default of PatientUpdate, None
SuppliedValues(S, k) == IF k \in S THEN UpdateValues(k) ELSE {None}

\* bodies of PUT /update as PatientUpdate holds them: the six fields and
\* model_fields_set, the names of the fields the body supplies
UpdateBodies ==
    UNION { [name : SuppliedValues(S, "name"), city : SuppliedValues(S, "city"),
             age : SuppliedValues(S, "age"), gender : SuppliedValues(S, "gender"),
             height : SuppliedValues(S, "height"), weight : SuppliedValues(S, "weight"),
             fields_set : {S}] :
            S \in {T \in SUBSET FieldNames : Cardinality(T) <= MaxSupplied} }

\* the requests served together
Workers == {"w1", "w2"}

\* the stores the requests in flight together start from
ConcRecord ==
    [name |-> "A", city |-> "X", age |-> 30, gender |-> "male", height |-> 160,
     weight |-> 640, bmi |-> 2500, verdict |-> "Overweight"]

ConcFiles ==
    { << >>,
      <<[key |-> "P001", value |-> ConcRecord]>>,
      <<[key |-> "P001", value |-> ConcRecord], [key |-> "P002", value |-> ConcRecord]>> }

\* the mutating requests in flight together
ConcRequests ==
    {[op |-> "create", id |-> b.id, body |-> b] :
        b \in [id : PatientIds, name : {"B"}, city : Cities, age : {60, 120},
               gender : {"male"}, height : {200}, weight : {998}]}
    \cup {[op |-> "update", id |-> i, body |-> u] :
        i \in PatientIds,
        u \in [name : {None}, city : {None}, age : {None}, gender : {None},
               height : {None}, weight : {Some(600), Some(0)}, fields_set : {{"weight"}}]}
    \cup {[op |-> "delete", id |-> i] : i \in PatientIds}

\* the keys of the stores that are sorted, in the order of the file
SortKeys == <<"P001", "P002", "P003", "P004">>

\* the records of the stores that are sorted: written by the service, or put
\* in patients.json without some of the fields
SortFieldSets ==
    { {"name", "age", "height", "weight", "bmi"},
      {"name", "height", "weight", "bmi"},
      {"name", "age"} }

SortRecords ==
    { [k \in S |-> r[k]] :
        r \in [name : {"A", "B"}, age : {30, 60}, height : {160}, weight : {640},
               bmi : {2500}],
        S \in SortFieldSets }

\* the stores that are sorted
SortFiles ==
    UNION { { [i \in 1..n |-> [key |-> SortKeys[i], value |-> v[i]]] :
                v \in [1..n -> SortRecords] } :
            n \in 0..MaxSortRecords }

\* the parameters of GET /sort
SortByInputs == {"height", "weight", "bmi", "age", "foo"}
OrderInputs == {"asc", "dsc", "up"}

\* ------------------------------------------------------------------ the dict read from patients.json

Keys(d) == {d[i].key : i \in 1..Len(d)}

Lookup(d, k) == (CHOOSE i \in 1..Len(d) : d[i].key = k)

\* d[k]
Get(d, k) == d[Lookup(d, k)].value

\* d[k] = v : an existing key keeps its place, a new key goes last
Put(d, k, v) ==
    IF k \in Keys(d)
    THEN [d EXCEPT ![Lookup(d, k)] = [key |-> k, value |-> v]]
    ELSE Append(d, [key |-> k, value |-> v])

\* del d[k]
Del(d, k) ==
    LET i == Lookup(d, k)
    IN  [j \in 1..(Len(d) - 1) |-> IF j < i THEN d[j] ELSE d[j + 1]]

\* data.values()
Values(d) == [i \in 1..Len(d) |-> d[i].value]

\* ------------------------------------------------------------------ sorted

\* x.get(sort_by, 0)
SortKey(x, sort_by) == IF sort_by \in DOMAIN x THEN x[sort_by] ELSE 0

Reverse(s) == [i \in 1..Len(s) |-> s[Len(s) + 1 - i]]

\* Insert that puts x before the elements of its key
Insert_BeforeEqual(s, x, sort_by) ==
    LET n == Cardinality({i \in 1..Len(s) : SortKey(s[i], sort_by) < SortKey(x, sort_by)})
    IN  SubSeq(s, 1, n) \o <<x>> \o SubSeq(s, n + 1, Len(s))

\* x put in the sorted s after the elements whose key is not greater
Insert(s, x, sort_by) ==
    LET n == Cardinality({i \in 1..Len(s) : SortKey(s[i], sort_by) <= SortKey(x, sort_by)})
    IN  SubSeq(s, 1, n) \o <<x>> \o SubSeq(s, n + 1, Len(s))

RECURSIVE StableSort(_, _)
\* the stable sort of list.sort: elements of one key keep their order
StableSort(s, sort_by) ==
    IF s = << >> THEN << >>
    ELSE Insert(StableSort(SubSeq(s, 1, Len(s) - 1), sort_by), s[Len(s)], sort_by)

\* Sorted with reverse=True taken as the ascending result reversed
Sorted_ReverseOfAscending(s, sort_by, reverse) ==
    IF reverse THEN Reverse(StableSort(s, sort_by)) ELSE StableSort(s, sort_by)

\* sorted(s, key=lambda x: x.get(sort_by, 0), reverse=reverse): list.sort
\* with reverse set reverses the list, sorts it and reverses the result
Sorted(s, sort_by, reverse) ==
    IF reverse
    THEN Reverse(StableSort(Reverse(s), sort_by))
    ELSE StableSort(s, sort_by)

\* ------------------------------------------------------------------ Patient

\* round(n / m, 0) for n >= 0, m > 0, ties to the even neighbour
RoundHalfEven(n, m) ==
    LET q == n \div m
        r == n % m
    IN  IF 2 * r < m THEN q
        ELSE IF 2 * r > m THEN q + 1
        ELSE IF q % 2 = 0 THEN q ELSE q + 1

\* Patient.bmi: round(weight / height ** 2, 2), on the exact quotient; Python
\* rounds the float nearest to the quotient, which gives the same hundredth
\* except where the quotient lies at a tie between two hundredths
Bmi(height, weight) == RoundHalfEven(weight * 100000, height * height)

\* Verdict with the second branch closed at 25 (no gap below "Overweight")
Verdict_NoGap(bmi) ==
    IF bmi < 1850 THEN "Underweight"
    ELSE IF 1850 <= bmi /\ bmi < 2500 THEN "Normal weight"
    ELSE IF 2500 <= bmi /\ bmi < 2990 THEN "Overweight"
    ELSE "Obesity"

\* Patient.verdict
Verdict(bmi) ==
    IF bmi < 1850 THEN "Underweight"
    ELSE IF 1850 <= bmi /\ bmi < 2490 THEN "Normal weight"
    ELSE IF 2500 <= bmi /\ bmi < 2990 THEN "Overweight"
    ELSE "Obesity"

\* the constraints of the fields of Patient on a dict of wrapped values

\* AgeOk with the bound of PatientUpdate.age (gt=0 only)
AgeOk_NoUpperBound(v) == v # None /\ v[1] > 0

AgeOk(v) == v # None /\ v[1] > 0 /\ v[1] < 120

GenderOk(v) == v # None /\ v[1] \in Genders

HeightOk(v) == v # None /\ v[1] > 0

\* WeightOk with ge=0.0 for gt=0.0
WeightOk_Ge(v) == v # None /\ v[1] >= 0

WeightOk(v) == v # None /\ v[1] > 0

\* Patient(**d) raises no ValidationError
PatientValid(d) ==
    /\ d.name # None
    /\ d.city # None
    /\ AgeOk(d.age)
    /\ GenderOk(d.gender)
    /\ HeightOk(d.height)
    /\ WeightOk(d.weight)

\* Patient(**d).model_dump(exclude=['id'])
PatientDump(d) ==
    [name |-> d.name[1], city |-> d.city[1], age |-> d.age[1],
     gender |-> d.gender[1], height |-> d.height[1], weight |-> d.weight[1],
     bmi |-> Bmi(d.height[1], d.weight[1]),
     verdict |-> Verdict(Bmi(d.height[1], d.weight[1]))]

\* a JSON body as a dict of wrapped values
Wrap(b) == [k \in DOMAIN b |-> Some(b[k])]

\* PatientUpdate(**u) raises no ValidationError: a field may be null, and a
\* field that is not null meets the constraint PatientUpdate gives it
PatientUpdateValid(u) ==
    /\ u.age # None => u.age[1] > 0
    /\ u.gender # None => u.gender[1] \in Genders
    /\ u.height # None => u.height[1] > 0
    /\ u.weight # None => u.weight[1] > 0

\* Merge with dict.setdefault for the assignment: the stored value wins
Merge_StoredWins(stored, u, id) ==
    [k \in FieldNames \cup {"id"} |->
        IF k = "id" THEN Some(id) ELSE Some(stored[k])]

\* existing_patient_info after the loop of update_patient over
\* model_dump(exclude_unset=True) and the assignment of 'id': the stored value
\* with the supplied fields written over it
Merge(stored, u, id) ==
    [k \in FieldNames \cup {"id"} |->
        IF k = "id" THEN Some(id)
        ELSE IF k \in u.fields_set THEN u[k]
        ELSE Some(stored[k])]

\* ------------------------------------------------------------------ responses

Json(status, content) == [status |-> status, body |-> content]
HttpError(status, detail) == [status |-> status, body |-> [detail |-> detail]]
\* the framework answers a body that fails the model of the parameter
RequestValidationError == [status |-> 422, body |-> [detail |-> "validation error"]]
\* an exception that leaves the handler
InternalServerError == [status |-> 500, body |-> [detail |-> "Internal Server Error"]]

\* ------------------------------------------------------------------ persistence

\* load_data(): the dict json.load builds from patients.json
load_data(f) == f

\* save_data that writes the entries of data over those of the file and
\* keeps the other entries of the file
save_data_Patch(f, data) ==
    [i \in 1..Len(f) |->
        IF f[i].key \in Keys(data)
        THEN [key |-> f[i].key, value |-> Get(data, f[i].key)]
        ELSE f[i]]
    \o SelectSeq(data, LAMBDA e : e.key \notin Keys(f))

\* save_data(data): patients.json after json.dump(data) on the file opened
\* with "w"; what the file held is gone
save_data(f, data) == data

\* ------------------------------------------------------------------ handlers
\* A handler is given the dict its call of load_data returned and yields the
\* response, the dict it passes to save_data, and whether it calls save_data.

Result(response, data, saves) == [resp |-> response, data |-> data, saves |-> saves]

\* create_patient without the check for an existing id
create_patient_NoExistsCheck(data, patient) ==
    Result(Json(201, [message |-> "Patient created successfully",
                      patient_id |-> patient.id[1]]),
           Put(data, patient.id[1], PatientDump(patient)), TRUE)

\* POST /create; patient is the body, valid for Patient
create_patient(data, patient) ==
    IF patient.id[1] \in Keys(data)
    THEN Result(HttpError(400, "Patient Already Exists"), data, FALSE)
    ELSE Result(Json(201, [message |-> "Patient created successfully",
                           patient_id |-> patient.id[1]]),
                Put(data, patient.id[1], PatientDump(patient)), TRUE)

\* PUT /update/{patient_id}; patient_update is the body, valid for PatientUpdate
update_patient(data, patient_id, patient_update) ==
    IF patient_id \notin Keys(data)
    THEN Result(HttpError(400, "Patient Does Not Exists"), data, FALSE)
    ELSE LET existing_patient_info == Merge(Get(data, patient_id), patient_update, patient_id)
         IN  IF ~PatientValid(existing_patient_info)
             THEN Result(InternalServerError, data, FALSE)
             ELSE Result(Json(201, [message |-> "Patient updated Succesfuly",
                                    patient_id |-> patient_id]),
                         Put(data, patient_id, PatientDump(existing_patient_info)), TRUE)

\* delete without the del statement
delete_NoDel(data, patient_id) ==
    IF patient_id \notin Keys(data)
    THEN Result(HttpError(400, "Patient Does Not Exists"), data, FALSE)
    ELSE Result(Json(200, [message |-> "Patient deleted successfully",
                           patient_id |-> patient_id]),
                data, TRUE)

\* DELETE /delete/{patient_id}
delete(data, patient_id) ==
    IF patient_id \notin Keys(data)
    THEN Result(HttpError(400, "Patient Does Not Exists"), data, FALSE)
    ELSE Result(Json(200, [message |-> "Patient deleted successfully",
                           patient_id |-> patient_id]),
                Del(data, patient_id), TRUE)

\* GET /view
view(data) == Result(Json(200, data), data, FALSE)

\* GET /patient/{patient_id}
get_patient(data, patient_id) ==
    IF patient_id \in Keys(data)
    THEN Result(Json(200, Get(data, patient_id)), data, FALSE)
    ELSE Result(HttpError(404, "Patient not found"), data, FALSE)

\* GET /sort; the parameters are checked before load_data is called
sort_patients(data, sort_by, order) ==
    IF sort_by \notin {"height", "weight", "bmi", "age"}
    THEN Result(HttpError(400, "Invalid sort field. Choose from {valid_sort_fields}."),
                data, FALSE)
    ELSE IF order \notin {"asc", "dsc"}
    THEN Result(HttpError(400, "Invalid order. Choose 'asc' or 'dsc'."), data, FALSE)
    ELSE LET sort_order == IF order = "dsc" THEN TRUE ELSE FALSE
         IN  Result(Json(200, Sorted(Values(data), sort_by, sort_order)), data, FALSE)

\* ------------------------------------------------------------------ routing

CreateRequest(body) == [op |-> "create", id |-> body.id, body |-> body]
UpdateRequest(id, u) == [op |-> "update", id |-> id, body |-> u]
DeleteRequest(id) == [op |-> "delete", id |-> id]

\* the framework builds the parameters of the handler from the request; a
\* body that fails the model of the parameter is answered 422 and the
\* handler is not called
BodyValid(r) ==
    CASE r.op = "create" -> PatientValid(Wrap(r.body))
      [] r.op = "update" -> PatientUpdateValid(r.body)
      [] OTHER -> TRUE

\* the handler of the route of r on the dict data
Handle(r, data) ==
    CASE r.op = "create" -> create_patient(data, Wrap(r.body))
      [] r.op = "update" -> update_patient(data, r.id, r.body)
      [] r.op = "delete" -> delete(data, r.id)
      [] r.op = "view"   -> view(data)
      [] r.op = "get"    -> get_patient(data, r.id)
      [] r.op = "sort"   -> sort_patients(data, r.sort_by, r.order)

\* ------------------------------------------------------------------ one request at a time

IdleWorkers ==
    /\ pc = [w \in Workers |-> "idle"]
    /\ job = [w \in Workers |-> NoReq]
    /\ snapshot = [w \in Workers |-> << >>]
    /\ answer = [w \in Workers |-> NoResp]
    /\ saved = << >>

Init ==
    /\ file = << >>
    /\ prev = file
    /\ req = NoReq
    /\ resp = NoResp
    /\ deleted = {}
    /\ IdleWorkers

\* the request r is answered: validation of the body, then the handler from
\* its load_data to its save_data
Serve(r) ==
    /\ req = NoReq
    /\ req' = r
    /\ prev' = file
    /\ UNCHANGED workerVars
    /\ IF ~BodyValid(r)
       THEN /\ resp' = RequestValidationError
            /\ UNCHANGED <<file, deleted>>
       ELSE LET out == Handle(r, load_data(file))
            IN  /\ resp' = out.resp
                /\ file' = IF out.saves THEN save_data(file, out.data) ELSE file
                /\ deleted' = IF r.op = "delete" /\ out.saves THEN deleted \cup {r.id}
                              ELSE IF r.op = "create" /\ out.saves THEN deleted \ {r.id}
                              ELSE deleted

PostCreate(body) == Serve(CreateRequest(body))

PutUpdate(patient_id, u) == Serve(UpdateRequest(patient_id, u))

DeleteDelete(patient_id) == Serve(DeleteRequest(patient_id))

GetView == Serve([op |-> "view"])

GetPatient(patient_id) == Serve([op |-> "get", id |-> patient_id])

GetSort(sort_by, order) == Serve([op |-> "sort", sort_by |-> sort_by, order |-> order])

\* the response is sent and the application waits for the next request
Respond ==
    /\ req # NoReq
    /\ req' = NoReq
    /\ resp' = NoResp
    /\ prev' = file
    /\ UNCHANGED <<file, deleted>>
    /\ UNCHANGED workerVars

Next ==
    \/ \E body \in CreateBodies : PostCreate(body)
    \/ \E id \in PatientIds, u \in UpdateBodies : PutUpdate(id, u)
    \/ \E id \in PatientIds : DeleteDelete(id)
    \/ GetView
    \/ \E id \in PatientIds : GetPatient(id)
    \/ Respond

Spec == Init /\ [][Next]_vars

\* ------------------------------------------------------------------ GET /sort on the stores of SortFiles

InitSort ==
    /\ file \in SortFiles
    /\ prev = file
    /\ req = NoReq
    /\ resp = NoResp
    /\ deleted = {}
    /\ IdleWorkers

NextSort ==
    \/ \E sort_by \in SortByInputs, order \in OrderInputs : GetSort(sort_by, order)
    \/ Respond

SpecSort == InitSort /\ [][NextSort]_vars

\* ------------------------------------------------------------------ requests in flight together
\* The application has no lock: while a handler is between its load_data and
\* its save_data another request may be served.

InitConc ==
    /\ file \in ConcFiles
    /\ prev = file
    /\ req = NoReq
    /\ resp = NoResp
    /\ deleted = {}
    /\ IdleWorkers

\* worker w takes the request r: the body is validated and the handler runs
\* up to the return of load_data
Arrive(w, r) ==
    /\ pc[w] = "idle"
    /\ job' = [job EXCEPT ![w] = r]
    /\ UNCHANGED <<file, prev, req, resp, deleted, saved>>
    /\ IF ~BodyValid(r)
       THEN /\ answer' = [answer EXCEPT ![w] = RequestValidationError]
            /\ pc' = [pc EXCEPT ![w] = "done"]
            /\ UNCHANGED snapshot
       ELSE /\ snapshot' = [snapshot EXCEPT ![w] = load_data(file)]
            /\ pc' = [pc EXCEPT ![w] = "loaded"]
            /\ UNCHANGED answer

\* worker w runs the rest of the handler on the dict it loaded, save_data
\* included, and answers; snapshot[w] stays the dict as it was loaded
Finish(w) ==
    /\ pc[w] = "loaded"
    /\ LET out == Handle(job[w], snapshot[w])
       IN  /\ answer' = [answer EXCEPT ![w] = out.resp]
           /\ file' = IF out.saves THEN save_data(file, out.data) ELSE file
           /\ saved' = IF out.saves THEN Append(saved, w) ELSE saved
    /\ pc' = [pc EXCEPT ![w] = "done"]
    /\ UNCHANGED <<prev, req, resp, deleted, job, snapshot>>

NextConc ==
    \/ \E w \in Workers, r \in ConcRequests : Arrive(w, r)
    \/ \E w \in Workers : Finish(w)

SpecConc == InitConc /\ [][NextConc]_vars

\* ------------------------------------------------------------------ properties

\* the dict d of wrapped values breaks a constraint of the full record
ViolatesFullRecord(d) ==
    \/ d.name = None
    \/ d.city = None
    \/ d.age = None \/ d.age[1] <= 0 \/ d.age[1] >= 120
    \/ d.gender = None \/ d.gender[1] \notin {"male", "female", "others"}
    \/ d.height = None \/ d.height[1] <= 0
    \/ d.weight = None \/ d.weight[1] <= 0

\* the body of an update breaks a bound PatientUpdate puts on a field
ViolatesUpdateBody(u) ==
    \/ u.age # None /\ u.age[1] <= 0
    \/ u.gender # None /\ u.gender[1] \notin {"male", "female", "others"}
    \/ u.height # None /\ u.height[1] <= 0
    \/ u.weight # None /\ u.weight[1] <= 0

\* the merged record of the update in `req`: the supplied fields over the
\* stored ones
MergedOfReq ==
    LET old == Get(prev, req.id)
    IN  [k \in FieldNames |->
            IF k \in req.body.fields_set THEN req.body[k] ELSE Some(old[k])]

\* the entries of d other than the one of key k are the same in e
OthersUnchanged(d, e, k) ==
    \A j \in Keys(d) \ {k} : j \in Keys(e) /\ Get(e, j) = Get(d, j)

\* C1: a PUT /update on an id of the store whose merged record violates the
\* full-record schema is answered 422
C1_MergedViolationIs422 ==
    (req.op = "update" /\ req.id \in Keys(prev) /\ ViolatesFullRecord(MergedOfReq))
        => resp.status = 422

\* C3: a successful update leaves the unsupplied fields as they were, gives
\* the supplied fields the supplied values, stores the bmi and the verdict of
\* the merged height and weight, and changes no other record
C3_UpdateFrame ==
    (req.op = "update" /\ resp.status = 201) =>
        /\ req.id \in Keys(prev)
        /\ Keys(file) = Keys(prev)
        /\ OthersUnchanged(prev, file, req.id)
        /\ LET old == Get(prev, req.id)
               new == Get(file, req.id)
               h == MergedOfReq["height"][1]
               w == MergedOfReq["weight"][1]
           IN  /\ \A k \in FieldNames :
                     IF k \in req.body.fields_set
                     THEN Some(new[k]) = req.body[k]
                     ELSE new[k] = old[k]
               /\ new.bmi = Bmi(h, w)
               /\ new.verdict = Verdict(Bmi(h, w))

C3_Witness ==
    /\ req.op = "update" /\ resp.status = 201
    /\ req.body.fields_set = {"weight"}
    /\ Len(file) = 2
    /\ Get(file, req.id).weight # Get(prev, req.id).weight
    /\ Get(file, req.id).verdict # Get(prev, req.id).verdict

\* C4: a create of an id of the store is answered 400 "Patient Already
\* Exists" and leaves the store as it was; a create of an id not in the store
\* adds that key, its value without the id, and changes no other record
C4_Create ==
    (req.op = "create" /\ ~ViolatesFullRecord(Wrap(req.body))) =>
        IF req.id \in Keys(prev)
        THEN /\ resp.status = 400
             /\ resp.body = [detail |-> "Patient Already Exists"]
             /\ file = prev
        ELSE /\ resp.status = 201
             /\ Keys(file) = Keys(prev) \cup {req.id}
             /\ Len(file) = Len(prev) + 1
             /\ "id" \notin DOMAIN Get(file, req.id)
             /\ \A k \in FieldNames : Get(file, req.id)[k] = req.body[k]
             /\ OthersUnchanged(prev, file, req.id)

C4_Witness ==
    /\ req.op = "create" /\ resp.status = 400
    /\ Len(prev) = 2
    /\ \E k \in FieldNames : Get(prev, req.id)[k] # req.body[k]

\* C5: every record of the store has 0 < age < 120, height > 0, weight > 0
\* and a gender among male, female, others
C5_StoredConstraints ==
    \A i \in 1..Len(file) :
        LET r == file[i].value
        IN  /\ 0 < r.age /\ r.age < 120
            /\ r.height > 0
            /\ r.weight > 0
            /\ r.gender \in {"male", "female", "others"}

C5_Witness ==
    /\ req.op = "update" /\ req.id \in Keys(prev)
    /\ req.body.fields_set = {"age"} /\ req.body.age = Some(120)
    /\ Len(file) = 2

\* C6: the bmi of every record of the store is weight / height^2 rounded to
\* two decimals and its verdict is the one the branch table gives that bmi
C6_DerivedConsistent ==
    \A i \in 1..Len(file) :
        LET r == file[i].value
            scaled == r.weight * 100000
            hh == r.height * r.height
        IN  /\ 2 * (r.bmi * hh - scaled) <= hh
            /\ 2 * (scaled - r.bmi * hh) <= hh
            /\ r.bmi < 1850 => r.verdict = "Underweight"
            /\ (1850 <= r.bmi /\ r.bmi < 2490) => r.verdict = "Normal weight"
            /\ (2500 <= r.bmi /\ r.bmi < 2990) => r.verdict = "Overweight"
            /\ ((2490 <= r.bmi /\ r.bmi < 2500) \/ r.bmi >= 2990)
                   => r.verdict = "Obesity"

C6_Witness ==
    /\ req.op = "update" /\ resp.status = 201
    /\ Get(prev, req.id).verdict = "Underweight"
    /\ Get(file, req.id).bmi = 2495
    /\ Get(file, req.id).verdict = "Obesity"

\* C7: a create or an update that fails validation, in its body or in the
\* merged record, writes nothing
C7_FailedValidationNoWrite ==
    (\/ req.op = "create" /\ ViolatesFullRecord(Wrap(req.body))
     \/ req.op = "update" /\ ViolatesUpdateBody(req.body)
     \/ req.op = "update" /\ req.id \in Keys(prev) /\ ViolatesFullRecord(MergedOfReq))
        => file = prev

C7_Witness ==
    /\ req.op = "update" /\ req.id \in Keys(prev)
    /\ ~ViolatesUpdateBody(req.body)
    /\ ViolatesFullRecord(MergedOfReq)
    /\ req.body.fields_set = {"name", "weight"}
    /\ req.body.name = None
    /\ req.body.weight # Some(Get(prev, req.id).weight)

\* C8: a delete of an id not in the store is answered "Patient Does Not
\* Exists" and leaves the store as it was; a delete of an id of the store
\* removes that key and no other; a get of an id deleted and not created
\* again since is answered 404
C8_Delete ==
    /\ req.op = "delete" =>
          IF req.id \notin Keys(prev)
          THEN /\ resp.status = 400
               /\ resp.body = [detail |-> "Patient Does Not Exists"]
               /\ file = prev
          ELSE /\ resp.status = 200
               /\ Keys(file) = Keys(prev) \ {req.id}
               /\ Len(file) = Len(prev) - 1
               /\ OthersUnchanged(prev, file, req.id)
    /\ (req.op = "get" /\ req.id \in deleted) =>
          /\ resp.status = 404
          /\ resp.body = [detail |-> "Patient not found"]

C8_Witness ==
    /\ req.op = "get" /\ req.id \in deleted
    /\ resp.status = 404
    /\ Len(file) = 1

\* the key a record has for the sort: the field, or 0 without the field
KeyOf(x, f) == IF f \in DOMAIN x THEN x[f] ELSE 0

\* the ways to arrange n records
Arrangements(n) ==
    {p \in [1..n -> 1..n] : \A i, j \in 1..n : i # j => p[i] # p[j]}

\* out holds the records of vals, each once, in non-decreasing order of the
\* field f, the records of one key in the order of vals
IsStableAscending(out, vals, f) ==
    /\ Len(out) = Len(vals)
    /\ \E p \in Arrangements(Len(vals)) :
          /\ \A i \in 1..Len(vals) : out[i] = vals[p[i]]
          /\ \A i, j \in 1..Len(vals) :
                i < j => \/ KeyOf(out[i], f) < KeyOf(out[j], f)
                         \/ KeyOf(out[i], f) = KeyOf(out[j], f) /\ p[i] < p[j]

\* out holds the records of vals, each once, in non-increasing order of the
\* field f, the records of one key in the order of vals
IsStableDescending(out, vals, f) ==
    /\ Len(out) = Len(vals)
    /\ \E p \in Arrangements(Len(vals)) :
          /\ \A i \in 1..Len(vals) : out[i] = vals[p[i]]
          /\ \A i, j \in 1..Len(vals) :
                i < j => \/ KeyOf(out[i], f) > KeyOf(out[j], f)
                         \/ KeyOf(out[i], f) = KeyOf(out[j], f) /\ p[i] < p[j]

\* out is the reverse of the ascending result for vals
IsReverseOfAscending(out, vals, f) ==
    /\ Len(out) = Len(vals)
    /\ IsStableAscending([i \in 1..Len(out) |-> out[Len(out) + 1 - i]], vals, f)

ValidSort == req.op = "sort" /\ req.sort_by \in {"height", "weight", "bmi", "age"}

\* C2 as stated: the result of order=dsc is the reverse of the result of
\* order=asc on the same store
C2_DscIsReverseOfAsc ==
    (ValidSort /\ req.order = "dsc") =>
        /\ resp.status = 200
        /\ IsReverseOfAscending(resp.body, Values(prev), req.sort_by)

\* C2 amended: the result of order=dsc holds the records of the store in
\* non-increasing order of the key, records of one key in load order; it is
\* the reverse of the result of order=asc when no two records have one key
C2_DscIsStableDescending ==
    (ValidSort /\ req.order = "dsc") =>
        /\ resp.status = 200
        /\ IsStableDescending(resp.body, Values(prev), req.sort_by)
        /\ (\A i, j \in 1..Len(prev) :
               i # j => KeyOf(prev[i].value, req.sort_by) # KeyOf(prev[j].value, req.sort_by))
              => IsReverseOfAscending(resp.body, Values(prev), req.sort_by)

C2_Witness ==
    /\ ValidSort /\ req.order = "dsc" /\ req.sort_by = "age"
    /\ Len(prev) = 3
    /\ KeyOf(prev[1].value, "age") = 30 /\ KeyOf(prev[2].value, "age") = 30
    /\ KeyOf(prev[3].value, "age") = 60
    /\ prev[1].value # prev[2].value
    /\ resp.body = <<prev[3].value, prev[1].value, prev[2].value>>

\* C9: the result of order=asc holds every record of the store once, without
\* the ids, in non-decreasing order of the field (0 for a record without it),
\* records of one key in load order; a sort_by or an order outside the valid
\* ones is answered 400; the store is never modified
C9_SortAscending ==
    req.op = "sort" =>
        /\ file = prev
        /\ IF ~ValidSort \/ req.order \notin {"asc", "dsc"}
           THEN resp.status = 400
           ELSE /\ resp.status = 200
                /\ Len(resp.body) = Len(prev)
                /\ req.order = "asc" =>
                      IsStableAscending(resp.body, Values(prev), req.sort_by)

C9_Witness ==
    /\ ValidSort /\ req.order = "asc" /\ req.sort_by = "age"
    /\ Len(prev) = 3
    /\ "age" \notin DOMAIN prev[3].value
    /\ KeyOf(prev[1].value, "age") = 30 /\ KeyOf(prev[2].value, "age") = 30
    /\ prev[1].value # prev[2].value
    /\ resp.body = <<prev[3].value, prev[1].value, prev[2].value>>

\* the worker that called save_data last
LastSaver == saved[Len(saved)]

\* C10: with requests interleaved at load_data and save_data the store is
\* what the request that saved last made of the store it loaded: every
\* record of another id is as that request loaded it, whatever the requests
\* that saved before wrote
C10_LastSaveWins ==
    saved # << >> =>
        \A k \in PatientIds \ {job[LastSaver].id} :
            /\ k \in Keys(file) <=> k \in Keys(snapshot[LastSaver])
            /\ k \in Keys(file) => Get(file, k) = Get(snapshot[LastSaver], k)

\* both requests succeeded, on different ids, and the store holds the effect
\* of the second save only
C10_Witness ==
    /\ pc = [w \in Workers |-> "done"]
    /\ saved = <<"w1", "w2">>
    /\ job["w1"].op = "create" /\ job["w1"].id = "P001" /\ answer["w1"].status = 201
    /\ job["w2"].op = "create" /\ job["w2"].id = "P002" /\ answer["w2"].status = 201
    /\ Keys(file) = {"P002"}
====
